---- MODULE Spec2Model ----
(***************************************************************************)
(* The flight-delay notebook (XGBoost_LightGBM.ipynb) as a state machine:  *)
(* one action per statement of its code cells, run top to bottom; an       *)
(* exception raised by a statement ends the run.                           *)
(***************************************************************************)
EXTENDS Integers, Sequences, FiniteSets, TLC

VARIABLES file, gen, pc, data, X_train, X_test, y_train, y_test,
          grid_search, model, model2, d_train, out, error, trace, samples

vars == <<file, gen, pc, data, X_train, X_test, y_train, y_test,
          grid_search, model, model2, d_train, out, error, trace, samples>>

----------------------------------------------------------------------------
(* Bounds of the model *)

\* largest number of data rows of flights.csv
MaxFileRows == 56
\* content patterns of flights.csv: 0..MaxVariant
MaxVariant == 1
\* candidate pseudo-random generators behind RandomState: 0..MaxGen
MaxGen == 1
\* candidate fitted models per fit: 0..MaxModel
MaxModel == 2
\* scores are 0..MaxScore
MaxScore == 2
\* calls of the Sampler on one dataset
MaxCalls == 2

\* rows of flights.csv when the Encoder loop is applied repeatedly
MaxEncRows == 6
\* applications of the Encoder loop and removals of rows between them
MaxEncSteps == 3

\* rows of the TrainSet when the Evaluator is applied on its own
MaxEvalRows == 3

(* Program constants *)

\* a missing value (NaN); no data value equals it
NaN == -999
\* data.sample(frac = 0.1, ...): 1/10
FracNum == 1
FracDen == 10
\* train_test_split(..., test_size=0.25): 25/100
TestNum == 25
TestDen == 100
\* random_state=10, in sample and in train_test_split
random_state == 10
\* data["ARRIVAL_DELAY"] > 10
DelayThreshold == 10

\* a name that holds no value yet
None == [none |-> TRUE]

----------------------------------------------------------------------------
(* Columns *)

RetainedColumns ==
  {"MONTH", "DAY", "DAY_OF_WEEK", "AIRLINE", "FLIGHT_NUMBER",
   "DESTINATION_AIRPORT", "ORIGIN_AIRPORT", "AIR_TIME", "DEPARTURE_TIME",
   "DISTANCE", "ARRIVAL_DELAY"}

\* the encoded columns with the delay column among them
colsWithDelay ==
  <<"AIRLINE", "FLIGHT_NUMBER", "DESTINATION_AIRPORT", "ORIGIN_AIRPORT",
    "ARRIVAL_DELAY">>

cols == <<"AIRLINE", "FLIGHT_NUMBER", "DESTINATION_AIRPORT", "ORIGIN_AIRPORT">>

EncodedColumns == {cols[i] : i \in 1..Len(cols)}

FeatureColumns == RetainedColumns \ {"ARRIVAL_DELAY"}

\* columns of flights.csv that the notebook does not select
ExtraColumns == {"YEAR", "TAIL_NUMBER"}

----------------------------------------------------------------------------
(* Sequences *)

Range(s) == {s[i] : i \in 1..Len(s)}

Ids(rows) == {rows[i].id : i \in 1..Len(rows)}

RECURSIVE SelectRows(_, _)
\* the rows of s whose index is in keep, in the order of s
SelectRows(s, keep) ==
  IF s = <<>> THEN <<>>
  ELSE LET rest == SelectRows(Tail(s), {k - 1 : k \in keep \ {1}})
       IN IF 1 \in keep THEN <<Head(s)>> \o rest ELSE rest

\* take: the rows of s at the positions locs, in the order of locs
Take(s, locs) == [k \in 1..Len(locs) |-> s[locs[k]]]

----------------------------------------------------------------------------
(* flights.csv *)

DelayValues == <<-5, 10, 11, 40, 0>>

\* row i of the file with content pattern v
RowAt(i, v) ==
  [id |-> i,
   f  |-> [YEAR |-> 2015,
           TAIL_NUMBER |-> IF i % 4 = 1 THEN NaN ELSE 7000 + i,
           MONTH |-> (i % 12) + 1,
           DAY |-> ((i * 7) % 28) + 1,
           DAY_OF_WEEK |-> (i % 7) + 1,
           AIRLINE |-> 100 + 10 * ((i + v) % 3),
           FLIGHT_NUMBER |-> 2000 + 3 * ((i * 5) % 4),
           DESTINATION_AIRPORT |-> 300 + ((i + (i \div 3)) % 2),
           ORIGIN_AIRPORT |-> 400 + ((i \div 2) % 3),
           AIR_TIME |-> IF i % 9 = 4 + v THEN NaN ELSE 30 + i,
           DEPARTURE_TIME |-> 600 + i,
           DISTANCE |-> 100 + 10 * (i % 5),
           ARRIVAL_DELAY |-> IF i % 13 = 6 + v THEN NaN
                             ELSE DelayValues[((i * 3 + v) % 5) + 1]]]

Frame(columns, rows) == [columns |-> columns, rows |-> rows]

\* a column with its index: rows of (id, v)
Series(rows) == [rows |-> rows]

RestrictRow(r, columns) == [id |-> r.id, f |-> [c \in columns |-> r.f[c]]]

\* the files the notebook may find: unreadable, lacking a declared column,
\* or complete, with 0..MaxFileRows rows
Files ==
  {[readable |-> FALSE, frame |-> None]}
  \cup {[readable |-> TRUE,
         frame |-> Frame((RetainedColumns \cup ExtraColumns) \ {"DISTANCE"},
                         [i \in 1..n |-> RestrictRow(RowAt(i, 0),
                            (RetainedColumns \cup ExtraColumns) \ {"DISTANCE"})])]
        : n \in {0, MaxFileRows}}
  \cup {[readable |-> TRUE,
         frame |-> Frame(RetainedColumns \cup ExtraColumns,
                         [i \in 1..n |-> RowAt(i, v)])]
        : n \in 0..MaxFileRows, v \in 0..MaxVariant}

----------------------------------------------------------------------------
(* numpy.random.RandomState and the permutation it draws *)

\* one step of the generator
LcgNext(s) == (75 * s + 74) % 65537

\* a generator shared by the calls and left where the last call stopped
\* (what sample does when no random_state is given)
RandomStateShared(seed) == (seed + 1009 * gen + 7 * Len(samples)) % 65537

\* RandomState(seed): the stream depends on the seed alone (and on which
\* generator the library ships, gen, which the notebook cannot change)
RandomState(seed) == (seed + 1009 * gen) % 65537

Swap(arr, i, j) == [arr EXCEPT ![i] = arr[j], ![j] = arr[i]]

RECURSIVE Shuffle(_, _, _)
\* Fisher-Yates, from the last position down
Shuffle(arr, i, s) ==
  IF i <= 1 THEN arr
  ELSE LET s2 == LcgNext(s)
       IN Shuffle(Swap(arr, i, (s2 % i) + 1), i - 1, s2)

\* rng.permutation(n)
Permutation(n, s) == Shuffle([k \in 1..n |-> k], n, s)

----------------------------------------------------------------------------
(* Rounding *)

\* Python's round(num/den): to the nearest integer, a half to the even one
PyRound(num, den) ==
  LET q == num \div den
      r == num % den
  IN IF 2 * r < den THEN q
     ELSE IF 2 * r > den THEN q + 1
     ELSE IF q % 2 = 0 THEN q ELSE q + 1

\* math.ceil(num/den)
Ceil(num, den) == IF num % den = 0 THEN num \div den ELSE (num \div den) + 1

\* math.floor(num/den)
Floor(num, den) == num \div den

----------------------------------------------------------------------------
(* The data-preparation statements, as functions of the frame *)

\* data.sample(frac = 0.1, random_state=10): the first round(frac * n)
\* positions of a seeded permutation of the n rows, without replacement
SampleSize(n) == PyRound(FracNum * n, FracDen)

SampleLocs(n) == SubSeq(Permutation(n, RandomState(random_state)), 1, SampleSize(n))

Sample(frame) ==
  Frame(frame.columns, Take(frame.rows, SampleLocs(Len(frame.rows))))

\* data[[...]]: the declared columns only
SelectColumns(frame) ==
  Frame(RetainedColumns,
        [k \in 1..Len(frame.rows) |-> RestrictRow(frame.rows[k], RetainedColumns)])

\* dropna(how="all") in place of the default how="any"
HasNaNEverywhere(r, columns) == \A c \in columns : r.f[c] = NaN

HasNaN(r, columns) == \E c \in columns : r.f[c] = NaN

\* data.dropna(inplace=True): drops the rows with a missing value in any column
DropNa(frame) ==
  Frame(frame.columns,
        SelectRows(frame.rows,
                   {k \in 1..Len(frame.rows) : ~HasNaN(frame.rows[k], frame.columns)}))

\* >= in place of >
LabelAtThreshold(d) == IF d # NaN /\ d >= DelayThreshold THEN 1 ELSE 0

\* (x > 10) * 1; a comparison with NaN is False
Label(d) == IF d # NaN /\ d > DelayThreshold THEN 1 ELSE 0

\* data["ARRIVAL_DELAY"] = (data["ARRIVAL_DELAY"] > 10) * 1
Labeler(frame) ==
  Frame(frame.columns,
        [k \in 1..Len(frame.rows) |->
           [frame.rows[k] EXCEPT !.f["ARRIVAL_DELAY"] = Label(@)]])

\* astype("category"): the categories are the distinct values present,
\* missing values left out, in sorted order
Categories(frame, item) ==
  {frame.rows[k].f[item] : k \in 1..Len(frame.rows)} \ {NaN}

\* the position among the categories sorted downwards
CatCodeDescending(cats, v) ==
  IF v = NaN THEN -1 ELSE Cardinality({u \in cats : u > v})

\* .cat.codes: the position of the value among the sorted categories,
\* counted from 0; -1 for a missing value
CatCode(cats, v) ==
  IF v = NaN THEN -1 ELSE Cardinality({u \in cats : u < v})

\* the codes without the + 1
EncodeColumnFromZero(frame, item) ==
  LET cats == {frame.rows[k].f[item] : k \in 1..Len(frame.rows)} \ {NaN}
  IN Frame(frame.columns,
           [k \in 1..Len(frame.rows) |->
              [frame.rows[k] EXCEPT !.f[item] =
                 IF @ = NaN THEN -1 ELSE Cardinality({u \in cats : u < @})]])

\* data[item] = data[item].astype("category").cat.codes + 1
EncodeColumn(frame, item) ==
  LET cats == Categories(frame, item)
  IN Frame(frame.columns,
           [k \in 1..Len(frame.rows) |->
              [frame.rows[k] EXCEPT !.f[item] = CatCode(cats, @) + 1]])

RECURSIVE EncodeLoop(_, _)
\* for item in cols: ...
EncodeLoop(frame, items) ==
  IF items = <<>> THEN frame
  ELSE EncodeLoop(EncodeColumn(frame, Head(items)), Tail(items))

Encoder(frame) == EncodeLoop(frame, cols)

\* data.drop(["ARRIVAL_DELAY"], axis=1)
Features(frame) ==
  Frame(frame.columns \ {"ARRIVAL_DELAY"},
        [k \in 1..Len(frame.rows) |->
           RestrictRow(frame.rows[k], frame.columns \ {"ARRIVAL_DELAY"})])

\* data["ARRIVAL_DELAY"]: the column, with the rows' index
Target(frame) ==
  Series([k \in 1..Len(frame.rows) |->
            [id |-> frame.rows[k].id, v |-> frame.rows[k].f["ARRIVAL_DELAY"]]])

\* floor in place of ceil
NTestFloor(n) == Floor(TestNum * n, TestDen)

\* test_size=0.25 of n samples: ceil(test_size * n)
NTest(n) == Ceil(TestNum * n, TestDen)

\* train_size is not given: the complement
NTrain(n) == n - NTest(n)

\* the split raises ValueError when the train set would be empty
SplitFails(n) == NTrain(n) <= 0

\* ind_test = permutation[:n_test]
IndTest(n) == SubSeq(Permutation(n, RandomState(random_state)), 1, NTest(n))

\* the slice taken one position early: permutation[n_test - 1:]
IndTrainFromTestEnd(n) ==
  SubSeq(Permutation(n, RandomState(random_state)),
         Ceil(TestNum * n, TestDen), n)

\* ind_train = permutation[n_test:(n_test + n_train)]
IndTrain(n) ==
  SubSeq(Permutation(n, RandomState(random_state)), NTest(n) + 1, NTest(n) + NTrain(n))

----------------------------------------------------------------------------
(* The trainers: external collaborators *)

\* param_dist of the first search; learning rates in hundredths
GridA ==
  [max_depth : {10, 30, 50}, min_child_weight : {1, 3, 6},
   n_estimators : {200}, learning_rate : {5, 10, 16}]

\* param_dist of the second search; learning rates in hundredths
GridB ==
  [max_depth : {25, 50, 75}, learning_rate : {1, 5, 10},
   num_leaves : {300, 900, 1200}, n_estimators : {200}]

\* xgb.XGBClassifier(max_depth=50, min_child_weight=1, n_estimators=200,
\*                   learning_rate=0.16)
ParamsA ==
  [max_depth |-> 50, min_child_weight |-> 1, n_estimators |-> 200,
   learning_rate |-> 16]

\* params = {"max_depth": 50, "learning_rate": 0.1, "num_leaves": 900,
\*           "n_estimators": 300}
params ==
  [max_depth |-> 50, learning_rate |-> 10, num_leaves |-> 900,
   n_estimators |-> 300]

cate_features_name ==
  {"MONTH", "DAY", "DAY_OF_WEEK", "AIRLINE", "DESTINATION_AIRPORT",
   "ORIGIN_AIRPORT"}

\* what fitted model m of the candidates predicts for a row: a function of
\* the row's features alone
Predict(m, r) ==
  ((m + 1) * r.f["DAY_OF_WEEK"] + m * r.f["AIRLINE"] + (m \div 2) * r.f["MONTH"])
    % (MaxScore + 1)

\* the prediction operations a fitted model exposes: the scikit-learn
\* wrapper xgb.XGBClassifier has predict_proba and predict, the lgb.Booster
\* that lgb.train returns has predict alone
Methods(kind) ==
  IF kind = "XGBClassifier" THEN {"predict_proba", "predict"} ELSE {"predict"}

\* the fitted model: the features X and labels y it was fitted to and its
\* predictions, tabulated by row index over the rows of both partitions
Fitted(kind, hyper, categorical, X, y, m) ==
  [kind |-> kind, params |-> hyper, categorical |-> categorical,
   methods |-> Methods(kind), X |-> X, y |-> y,
   scores |-> [i \in Ids(X_train.rows) \cup Ids(X_test.rows) |->
                 LET r == CHOOSE r \in Range(X_train.rows) \cup Range(X_test.rows) :
                            r.id = i
                 IN Predict(m, r)]]

\* m.predict_proba(X)[:,1] and m.predict(X): one score per row of X, in
\* the order of X
Scores(m, X) == [k \in 1..Len(X.rows) |-> m.scores[X.rows[k].id]]

----------------------------------------------------------------------------
(* The Evaluator *)

Positives(y) == {k \in 1..Len(y.rows) : y.rows[k].v = 1}

Negatives(y) == {k \in 1..Len(y.rows) : y.rows[k].v # 1}

\* roc_auc_score raises ValueError unless y_true holds exactly two classes
OneClass(y) == Cardinality({y.rows[k].v : k \in 1..Len(y.rows)}) # 2

Max(S) == CHOOSE x \in S : \A z \in S : z <= x

RECURSIVE CurveArea(_, _, _, _, _)
\* roc_curve and the trapezoidal rule: the thresholds are the distinct
\* scores, highest first; at each the true and false positives among
\* the rows scored at or above it; the sum of
\* (fps - fps_prev) * (tps + tps_prev) is twice the area times P * N
CurveArea(y, s, thresholds, tpsPrev, fpsPrev) ==
  IF thresholds = {} THEN 0
  ELSE LET t    == Max(thresholds)
           tps  == Cardinality({k \in Positives(y) : s[k] >= t})
           fps  == Cardinality({k \in Negatives(y) : s[k] >= t})
       IN (fps - fpsPrev) * (tps + tpsPrev)
            + CurveArea(y, s, thresholds \ {t}, tps, fps)

RECURSIVE StepArea(_, _, _, _, _)
\* the area under the step curve: a tie counted as a full pair
StepArea(y, s, thresholds, tpsPrev, fpsPrev) ==
  IF thresholds = {} THEN 0
  ELSE LET t    == Max(thresholds)
           tps  == Cardinality({k \in Positives(y) : s[k] >= t})
           fps  == Cardinality({k \in Negatives(y) : s[k] >= t})
       IN (fps - fpsPrev) * (tps + tps)
            + StepArea(y, s, thresholds \ {t}, tps, fps)

roc_auc_score_step(y, s) ==
  [num |-> StepArea(y, s, Range(s), 0, 0),
   den |-> 2 * Cardinality(Positives(y)) * Cardinality(Negatives(y))]

\* metrics.roc_auc_score(y_true, y_score), as the fraction num / den
roc_auc_score(y, s) ==
  [num |-> CurveArea(y, s, Range(s), 0, 0),
   den |-> 2 * Cardinality(Positives(y)) * Cardinality(Negatives(y))]

\* an undefined score reported as 0/0 in place of the error
EvalPairNoRaise(m, train, test) ==
  [raised |-> FALSE, exc |-> "",
   value |-> <<IF OneClass(y_train) THEN [num |-> 0, den |-> 0]
               ELSE roc_auc_score(y_train, Scores(m, train)),
               IF OneClass(y_test) THEN [num |-> 0, den |-> 0]
               ELSE roc_auc_score(y_test, Scores(m, test))>>]

\* roc_auc_score raises ValueError (check_consistent_length) when y_score
\* has not the length of y_true
Inconsistent(y, X) == Len(X.rows) # Len(y.rows)

\* def auc(m, X_train, X_test): the labels come from the notebook's
\* y_train and y_test; the tuple is built only when both scores are
EvalPair(m, train, test) ==
  IF \/ OneClass(y_train) \/ OneClass(y_test)
     \/ Inconsistent(y_train, train) \/ Inconsistent(y_test, test)
  THEN [raised |-> TRUE, exc |-> "ValueError", value |-> <<>>]
  ELSE [raised |-> FALSE, exc |-> "",
        value |-> <<roc_auc_score(y_train, Scores(m, train)),
                    roc_auc_score(y_test, Scores(m, test))>>]

\* the attribute lookup m.<operation> of a call's argument, which comes
\* before the call of roc_auc_score: AttributeError when m has no such
\* operation
NoOperation == [raised |-> TRUE, exc |-> "AttributeError", value |-> <<>>]

\* an evaluator that scores with whichever operation the model has
aucAnyOperation(m, train, test) ==
  IF m.methods = {} THEN NoOperation ELSE EvalPair(m, train, test)

\* auc: scores m.predict_proba(X)[:,1]
auc(m, train, test) ==
  IF "predict_proba" \notin m.methods THEN NoOperation
  ELSE EvalPair(m, train, test)

\* auc2: scores m.predict(X)
auc2(m, train, test) ==
  IF "predict" \notin m.methods THEN NoOperation
  ELSE EvalPair(m, train, test)

----------------------------------------------------------------------------
(* The run: the statements of the code cells, top to bottom *)

\* the statement ends normally: the run goes on with the next one
Ok(here, next) ==
  /\ pc' = next
  /\ trace' = Append(trace, here)
  /\ error' = error

\* the statement raises and is run again
RaiseAndRetry(here, exc) ==
  /\ pc' = here
  /\ trace' = trace
  /\ error' = [stage |-> here, exc |-> exc]

\* the statement raises: the run ends there
Raise(here, exc) ==
  /\ pc' = "aborted"
  /\ trace' = trace
  /\ error' = [stage |-> here, exc |-> exc]

Init ==
  /\ file \in Files
  /\ gen \in 0..MaxGen
  /\ pc = "read_csv"
  /\ data = None
  /\ X_train = None /\ X_test = None /\ y_train = None /\ y_test = None
  /\ grid_search = None /\ model = None /\ model2 = None /\ d_train = None
  /\ out = <<>>
  /\ error = None
  /\ trace = <<>>
  /\ samples = <<>>

\* data = pd.read_csv("flights.csv")
ReadCsv ==
  /\ pc = "read_csv"
  /\ IF file.readable
     THEN data' = file.frame /\ Ok("read_csv", "sample")
     ELSE data' = data /\ Raise("read_csv", "FileNotFoundError")
  /\ UNCHANGED <<file, gen, X_train, X_test, y_train, y_test, grid_search,
                 model, model2, d_train, out, samples>>

\* data = data.sample(frac = 0.1, random_state=10)
SampleStep ==
  /\ pc = "sample"
  /\ data' = Sample(data)
  /\ Ok("sample", "select")
  /\ UNCHANGED <<file, gen, X_train, X_test, y_train, y_test, grid_search,
                 model, model2, d_train, out, samples>>

\* data = data[["MONTH", ..., "ARRIVAL_DELAY"]]
SelectStep ==
  /\ pc = "select"
  /\ IF RetainedColumns \subseteq data.columns
     THEN data' = SelectColumns(data) /\ Ok("select", "dropna")
     ELSE data' = data /\ Raise("select", "KeyError")
  /\ UNCHANGED <<file, gen, X_train, X_test, y_train, y_test, grid_search,
                 model, model2, d_train, out, samples>>

\* data.dropna(inplace=True)
DropNaStep ==
  /\ pc = "dropna"
  /\ data' = DropNa(data)
  /\ Ok("dropna", "labeler")
  /\ UNCHANGED <<file, gen, X_train, X_test, y_train, y_test, grid_search,
                 model, model2, d_train, out, samples>>

\* the Labeler, with the Encoder loop left out after it
LabelerStepThenSplit ==
  /\ pc = "labeler"
  /\ data' = Labeler(data)
  /\ Ok("labeler", "train_test_split")
  /\ UNCHANGED <<file, gen, X_train, X_test, y_train, y_test, grid_search,
                 model, model2, d_train, out, samples>>

\* data["ARRIVAL_DELAY"] = (data["ARRIVAL_DELAY"]>10)*1
LabelerStep ==
  /\ pc = "labeler"
  /\ data' = Labeler(data)
  /\ Ok("labeler", "encoder")
  /\ UNCHANGED <<file, gen, X_train, X_test, y_train, y_test, grid_search,
                 model, model2, d_train, out, samples>>

\* for item in cols: data[item] = data[item].astype("category").cat.codes +1
EncoderStep ==
  /\ pc = "encoder"
  /\ data' = Encoder(data)
  /\ Ok("encoder", "train_test_split")
  /\ UNCHANGED <<file, gen, X_train, X_test, y_train, y_test, grid_search,
                 model, model2, d_train, out, samples>>

\* the split, with the Encoder loop applied to each partition on its own
SplitStepEncodesPartitions ==
  /\ pc = "train_test_split"
  /\ LET n == Len(data.rows)
     IN IF SplitFails(n)
        THEN /\ UNCHANGED <<X_train, X_test, y_train, y_test>>
             /\ Raise("train_test_split", "ValueError")
        ELSE /\ X_train' = Encoder(Frame(Features(data).columns,
                                         Take(Features(data).rows, IndTrain(n))))
             /\ X_test' = Encoder(Frame(Features(data).columns,
                                        Take(Features(data).rows, IndTest(n))))
             /\ y_train' = Series(Take(Target(data).rows, IndTrain(n)))
             /\ y_test' = Series(Take(Target(data).rows, IndTest(n)))
             /\ Ok("train_test_split", "grid_search_A")
  /\ UNCHANGED <<file, gen, data, grid_search, model, model2, d_train, out,
                 samples>>

\* X_train, X_test, y_train, y_test = train_test_split(
\*     data.drop(["ARRIVAL_DELAY"], axis=1), data["ARRIVAL_DELAY"],
\*     random_state=10, test_size=0.25)
SplitStep ==
  /\ pc = "train_test_split"
  /\ LET n == Len(data.rows)
     IN IF SplitFails(n)
        THEN /\ UNCHANGED <<X_train, X_test, y_train, y_test>>
             /\ Raise("train_test_split", "ValueError")
        ELSE /\ X_train' = Frame(Features(data).columns,
                                 Take(Features(data).rows, IndTrain(n)))
             /\ X_test' = Frame(Features(data).columns,
                                Take(Features(data).rows, IndTest(n)))
             /\ y_train' = Series(Take(Target(data).rows, IndTrain(n)))
             /\ y_test' = Series(Take(Target(data).rows, IndTest(n)))
             /\ Ok("train_test_split", "grid_search_A")
  /\ UNCHANGED <<file, gen, data, grid_search, model, model2, d_train, out,
                 samples>>

\* grid_search = GridSearchCV(model, param_grid=param_dist, cv = 3, ...)
\* grid_search.fit(X_train, y_train): the search returns one cell of the
\* grid, or its error comes up unchanged
GridSearchA ==
  /\ pc = "grid_search_A"
  /\ \E ok \in BOOLEAN, best \in GridA :
       IF ok
       THEN /\ grid_search' = [estimator |-> "XGBClassifier", best |-> best,
                               X |-> X_train, y |-> y_train]
            /\ Ok("grid_search_A", "fit_A")
       ELSE /\ grid_search' = grid_search
            /\ Raise("grid_search_A", "TrainerError")
  /\ UNCHANGED <<file, gen, data, X_train, X_test, y_train, y_test, model,
                 model2, d_train, out, samples>>

\* model = xgb.XGBClassifier(max_depth=50, ...); model.fit(X_train,y_train)
FitA ==
  /\ pc = "fit_A"
  /\ \E ok \in BOOLEAN, m \in 0..MaxModel :
       IF ok
       THEN /\ model' = Fitted("XGBClassifier", ParamsA, {}, X_train, y_train, m)
            /\ Ok("fit_A", "auc_A")
       ELSE /\ model' = model
            /\ Raise("fit_A", "TrainerError")
  /\ UNCHANGED <<file, gen, data, X_train, X_test, y_train, y_test,
                 grid_search, model2, d_train, out, samples>>

\* the call with the two matrices in the other order
AucASwapped ==
  /\ pc = "auc_A"
  /\ LET r == auc(model, X_test, X_train)
     IN IF r.raised
        THEN out' = out /\ Raise("auc_A", r.exc)
        ELSE out' = Append(out, r.value) /\ Ok("auc_A", "grid_search_B")
  /\ UNCHANGED <<file, gen, data, X_train, X_test, y_train, y_test,
                 grid_search, model, model2, d_train, samples>>

\* auc(model, X_train, X_test)
AucA ==
  /\ pc = "auc_A"
  /\ LET r == auc(model, X_train, X_test)
     IN IF r.raised
        THEN out' = out /\ Raise("auc_A", r.exc)
        ELSE out' = Append(out, r.value) /\ Ok("auc_A", "grid_search_B")
  /\ UNCHANGED <<file, gen, data, X_train, X_test, y_train, y_test,
                 grid_search, model, model2, d_train, samples>>

\* grid_search = GridSearchCV(lg, ..., param_grid=param_dist, cv = 3,
\*                            scoring="roc_auc"); grid_search.fit(X_train,y_train)
GridSearchB ==
  /\ pc = "grid_search_B"
  /\ \E ok \in BOOLEAN, best \in GridB :
       IF ok
       THEN /\ grid_search' = [estimator |-> "LGBMClassifier", best |-> best,
                               X |-> X_train, y |-> y_train]
            /\ Ok("grid_search_B", "lgb_Dataset")
       ELSE /\ grid_search' = grid_search
            /\ Raise("grid_search_B", "TrainerError")
  /\ UNCHANGED <<file, gen, data, X_train, X_test, y_train, y_test, model,
                 model2, d_train, out, samples>>

\* d_train = lgb.Dataset(X_train, label=y_train)
MakeDataset ==
  /\ pc = "lgb_Dataset"
  /\ d_train' = [X |-> X_train, label |-> y_train]
  /\ Ok("lgb_Dataset", "train_B")
  /\ UNCHANGED <<file, gen, data, X_train, X_test, y_train, y_test,
                 grid_search, model, model2, out, samples>>

\* model2 = lgb.train(params, d_train)
TrainB ==
  /\ pc = "train_B"
  /\ \E ok \in BOOLEAN, m \in 0..MaxModel :
       IF ok
       THEN /\ model2' = Fitted("Booster", params, {}, d_train.X, d_train.label, m)
            /\ Ok("train_B", "auc2_B")
       ELSE /\ model2' = model2
            /\ Raise("train_B", "TrainerError")
  /\ UNCHANGED <<file, gen, data, X_train, X_test, y_train, y_test,
                 grid_search, model, d_train, out, samples>>

\* auc2(model2, X_train, X_test)
Auc2B ==
  /\ pc = "auc2_B"
  /\ LET r == auc2(model2, X_train, X_test)
     IN IF r.raised
        THEN out' = out /\ Raise("auc2_B", r.exc)
        ELSE out' = Append(out, r.value) /\ Ok("auc2_B", "train_B_cat")
  /\ UNCHANGED <<file, gen, data, X_train, X_test, y_train, y_test,
                 grid_search, model, model2, d_train, samples>>

\* the second lgb.train, keeping of X_train the categorical features alone
TrainBCatNarrowsFrame ==
  /\ pc = "train_B_cat"
  /\ \E ok \in BOOLEAN, m \in 0..MaxModel :
       IF ok
       THEN /\ model2' = Fitted("Booster", params, cate_features_name,
                                 d_train.X, d_train.label, m)
            /\ X_train' = Frame(cate_features_name,
                                [k \in 1..Len(X_train.rows) |->
                                   RestrictRow(X_train.rows[k],
                                               cate_features_name)])
            /\ Ok("train_B_cat", "auc2_B_cat")
       ELSE /\ model2' = model2
            /\ X_train' = X_train
            /\ Raise("train_B_cat", "TrainerError")
  /\ UNCHANGED <<file, gen, data, X_test, y_train, y_test,
                 grid_search, model, d_train, out, samples>>

\* model2 = lgb.train(params, d_train, categorical_feature = cate_features_name)
TrainBCat ==
  /\ pc = "train_B_cat"
  /\ \E ok \in BOOLEAN, m \in 0..MaxModel :
       IF ok
       THEN /\ model2' = Fitted("Booster", params, cate_features_name,
                                 d_train.X, d_train.label, m)
            /\ Ok("train_B_cat", "auc2_B_cat")
       ELSE /\ model2' = model2
            /\ Raise("train_B_cat", "TrainerError")
  /\ UNCHANGED <<file, gen, data, X_train, X_test, y_train, y_test,
                 grid_search, model, d_train, out, samples>>

\* auc2(model2, X_train, X_test)
Auc2BCat ==
  /\ pc = "auc2_B_cat"
  /\ LET r == auc2(model2, X_train, X_test)
     IN IF r.raised
        THEN out' = out /\ Raise("auc2_B_cat", r.exc)
        ELSE out' = Append(out, r.value) /\ Ok("auc2_B_cat", "done")
  /\ UNCHANGED <<file, gen, data, X_train, X_test, y_train, y_test,
                 grid_search, model, model2, d_train, samples>>

Next ==
  \/ ReadCsv \/ SampleStep \/ SelectStep \/ DropNaStep \/ LabelerStep
  \/ EncoderStep \/ SplitStep \/ GridSearchA \/ FitA \/ AucA
  \/ GridSearchB \/ MakeDataset \/ TrainB \/ Auc2B \/ TrainBCat \/ Auc2BCat

Spec == Init /\ [][Next]_vars

----------------------------------------------------------------------------
(* The Sampler, called repeatedly on one loaded dataset *)

InitSampler ==
  /\ file \in {f \in Files : f.readable}
  /\ gen \in 0..MaxGen
  /\ pc = "sample"
  /\ data = file.frame
  /\ X_train = None /\ X_test = None /\ y_train = None /\ y_test = None
  /\ grid_search = None /\ model = None /\ model2 = None /\ d_train = None
  /\ out = <<>>
  /\ error = None
  /\ trace = <<"read_csv">>
  /\ samples = <<>>

\* data.sample(frac = 0.1, random_state=10)
SamplerCall ==
  /\ pc = "sample"
  /\ Len(samples) < MaxCalls
  /\ samples' = Append(samples, Sample(data))
  /\ UNCHANGED <<file, gen, pc, data, X_train, X_test, y_train, y_test,
                 grid_search, model, model2, d_train, out, error, trace>>

NextSampler == SamplerCall

SpecSampler == InitSampler /\ [][NextSampler]_vars

----------------------------------------------------------------------------
(* The Encoder loop, applied again to the dataset it has encoded *)

\* the dataset after the first application of the Encoder loop
OnceEncoded == Encoder(DropNa(SelectColumns(file.frame)))

InitEncoder ==
  /\ file \in {[readable |-> TRUE,
                frame |-> Frame(RetainedColumns \cup ExtraColumns,
                                [i \in 1..n |-> RowAt(i, v)])]
               : n \in 1..MaxEncRows, v \in 0..MaxVariant}
  /\ gen = 0
  /\ pc = "encoder"
  /\ data = OnceEncoded
  /\ X_train = None /\ X_test = None /\ y_train = None /\ y_test = None
  /\ grid_search = None /\ model = None /\ model2 = None /\ d_train = None
  /\ out = <<>>
  /\ error = None
  /\ trace = <<"encoder">>
  /\ samples = <<>>

\* for item in cols: data[item] = data[item].astype("category").cat.codes +1
\* once more, on the encoded dataset
EncodeAgain ==
  /\ pc = "encoder"
  /\ Len(trace) < MaxEncSteps
  /\ data' = Encoder(data)
  /\ trace' = Append(trace, "encoder")
  /\ UNCHANGED <<file, gen, pc, X_train, X_test, y_train, y_test,
                 grid_search, model, model2, d_train, out, error, samples>>

\* the vocabulary of a field changes between two applications: the rows
\* holding one of its codes leave the dataset
RemoveRows ==
  /\ pc = "encoder"
  /\ Len(trace) < MaxEncSteps
  /\ \E item \in EncodedColumns : \E c \in Categories(data, item) :
       data' = Frame(data.columns,
                     SelectRows(data.rows,
                                {k \in 1..Len(data.rows) :
                                   data.rows[k].f[item] # c}))
  /\ trace' = Append(trace, "remove")
  /\ UNCHANGED <<file, gen, pc, X_train, X_test, y_train, y_test,
                 grid_search, model, model2, d_train, out, error, samples>>

NextEncoder == EncodeAgain \/ RemoveRows

SpecEncoder == InitEncoder /\ [][NextEncoder]_vars

----------------------------------------------------------------------------
(* The Evaluator, applied to label vectors and scores of every shape *)

\* a label vector over the row indices first .. first + n - 1
LabelVectors(first, n) ==
  {Series([k \in 1..n |-> [id |-> first + k - 1, v |-> b[k]]]) :
     b \in [1..n -> {0, 1}]}

BareFrame(first, n) ==
  Frame({}, [k \in 1..n |-> [id |-> first + k - 1, f |-> [c \in {} |-> 0]]])

InitEval ==
  /\ file = [readable |-> FALSE, frame |-> None]
  /\ gen = 0
  /\ pc = "call"
  /\ data = None
  /\ \E nt \in 1..MaxEvalRows :
       /\ X_train = BareFrame(1, nt)
       /\ X_test = BareFrame(nt + 1, 2)
       /\ y_train \in LabelVectors(1, nt)
       /\ y_test \in LabelVectors(nt + 1, 2)
       /\ \E tr \in [1..nt -> 0..MaxScore], te \in [nt + 1..nt + 2 -> 0..1] :
            /\ model = [kind |-> "XGBClassifier", params |-> ParamsA,
                        categorical |-> {},
                        methods |-> Methods("XGBClassifier"),
                        scores |-> [i \in 1..nt + 2 |->
                                      IF i <= nt THEN tr[i] ELSE te[i]]]
            /\ model2 = [kind |-> "Booster", params |-> params,
                         categorical |-> {},
                         methods |-> Methods("Booster"),
                         scores |-> [i \in 1..nt + 2 |->
                                       IF i <= nt THEN MaxScore - tr[i]
                                       ELSE 1 - te[i]]]
  /\ grid_search = None /\ d_train = None
  /\ out = <<>>
  /\ error = None
  /\ trace = <<>>
  /\ samples = <<>>

\* auc(model, X_train, X_test)
CallAuc ==
  /\ pc = "call"
  /\ LET r == auc(model, X_train, X_test)
     IN IF r.raised
        THEN out' = out /\ Raise("auc", r.exc)
        ELSE out' = Append(out, r.value) /\ Ok("auc", "returned")
  /\ UNCHANGED <<file, gen, data, X_train, X_test, y_train, y_test,
                 grid_search, model, model2, d_train, samples>>

\* auc2(model2, X_train, X_test)
CallAuc2 ==
  /\ pc = "call"
  /\ LET r == auc2(model2, X_train, X_test)
     IN IF r.raised
        THEN out' = out /\ Raise("auc2", r.exc)
        ELSE out' = Append(out, r.value) /\ Ok("auc2", "returned")
  /\ UNCHANGED <<file, gen, data, X_train, X_test, y_train, y_test,
                 grid_search, model, model2, d_train, samples>>

NextEval == CallAuc \/ CallAuc2

SpecEval == InitEval /\ [][NextEval]_vars

----------------------------------------------------------------------------
(* The Evaluator, applied to models of every set of prediction operations *)

Operations == {"predict_proba", "predict"}

\* a trained model with the operations ops and a score per row index
DuckModel(ops, n) ==
  [kind |-> "any", params |-> ParamsA, categorical |-> {}, methods |-> ops,
   scores |-> [i \in 1..n |-> i % 2]]

InitDuck ==
  /\ file = [readable |-> FALSE, frame |-> None]
  /\ gen = 0
  /\ pc = "call"
  /\ data = None
  /\ \E nt \in 1..MaxEvalRows :
       /\ X_train = BareFrame(1, nt)
       /\ X_test = BareFrame(nt + 1, 2)
       /\ y_train \in LabelVectors(1, nt)
       /\ y_test \in LabelVectors(nt + 1, 2)
       /\ \E ops \in (SUBSET Operations) \ {{}},
             ops2 \in (SUBSET Operations) \ {{}} :
            /\ model = DuckModel(ops, nt + 2)
            /\ model2 = DuckModel(ops2, nt + 2)
  /\ grid_search = None /\ d_train = None
  /\ out = <<>>
  /\ error = None
  /\ trace = <<>>
  /\ samples = <<>>

NextDuck == CallAuc \/ CallAuc2

SpecDuck == InitDuck /\ [][NextDuck]_vars

----------------------------------------------------------------------------
(* What the claims speak of *)

Done(stage) == stage \in Range(trace)

\* the row of flights.csv with index i, as read
FileRow(i) == file.frame.rows[i]

Distinct(rows) == Cardinality(Ids(rows)) = Len(rows)

RowWithId(rows, i) == CHOOSE r \in Range(rows) : r.id = i

\* X and y hold, position by position, the features and the label of the
\* same row of data
Aligned(X, y) ==
  /\ Len(y.rows) = Len(X.rows)
  /\ \A k \in 1..Len(y.rows) :
       /\ y.rows[k].id = X.rows[k].id
       /\ y.rows[k].v = RowWithId(data.rows, y.rows[k].id).f["ARRIVAL_DELAY"]
       /\ \A c \in FeatureColumns :
            X.rows[k].f[c] = RowWithId(data.rows, y.rows[k].id).f[c]

\* C1: once the Splitter has run, every row of the prepared dataset is in
\* exactly one of TrainSet and TestSet, and y_train / y_test hold, row for
\* row, the labels of the rows of X_train / X_test
C1_SplitPartitions ==
  Done("train_test_split") =>
    /\ Distinct(data.rows)
    /\ Distinct(X_train.rows) /\ Distinct(X_test.rows)
    /\ Ids(X_train.rows) \cap Ids(X_test.rows) = {}
    /\ Ids(X_train.rows) \cup Ids(X_test.rows) = Ids(data.rows)
    /\ X_train.columns = FeatureColumns /\ X_test.columns = FeatureColumns
    /\ Aligned(X_train, y_train)
    /\ Aligned(X_test, y_test)

C1_Witness ==
  /\ pc = "grid_search_A"
  /\ Len(X_train.rows) >= 3
  /\ Len(X_test.rows) >= 2
  /\ {y_train.rows[k].v : k \in 1..Len(y_train.rows)} = {0, 1}

\* C2 as amended: the TestSet has exactly ceil(0.25 * n) rows (the least
\* integer t with 4 * t >= n) and the TrainSet the remaining n - t rows;
\* with n <= 1 rows the Splitter raises and there are no sets
C2_TestSizeIsCeil ==
  LET n == Len(data.rows)
  IN /\ Done("train_test_split") =>
          /\ n >= 2
          /\ 4 * Len(X_test.rows) >= n
          /\ 4 * (Len(X_test.rows) - 1) < n
          /\ Len(X_train.rows) = n - Len(X_test.rows)
     /\ (error # None /\ error.stage = "train_test_split") =>
          /\ n <= 1
          /\ X_train = None /\ X_test = None

C2_Witness ==
  /\ Done("train_test_split")
  /\ Len(data.rows) = 5
  /\ Len(X_test.rows) = 2
  /\ Len(X_train.rows) = 3

\* C2 as written: the TestSet has round(0.25 * n) rows, an integer nearest
\* to n / 4, and the TrainSet the rest
C2_TestSizeIsRound ==
  LET n == Len(data.rows)
      t == Len(X_test.rows)
  IN Done("train_test_split") =>
       /\ 4 * t - n <= 2
       /\ n - 4 * t <= 2
       /\ Len(X_train.rows) = n - t

\* C3: once the Labeler has run, every record's ARRIVAL_DELAY is 1 if its
\* original delay d exceeds 10 and 0 otherwise, negative d and d = 10
\* included
C3_LabelIffDelayOver10 ==
  Done("labeler") =>
    \A r \in Range(data.rows) :
      LET d == FileRow(r.id).f["ARRIVAL_DELAY"]
      IN /\ r.f["ARRIVAL_DELAY"] \in {0, 1}
         /\ (r.f["ARRIVAL_DELAY"] = 1) <=> (d > 10)
         /\ (d = 10) => r.f["ARRIVAL_DELAY"] = 0

C3_Witness ==
  /\ pc = "encoder"
  /\ \E r \in Range(data.rows) : FileRow(r.id).f["ARRIVAL_DELAY"] = 10
  /\ \E r \in Range(data.rows) : FileRow(r.id).f["ARRIVAL_DELAY"] = 11
  /\ \E r \in Range(data.rows) : FileRow(r.id).f["ARRIVAL_DELAY"] < 0

\* C4: once the Encoder has run, in each encoded field with k distinct raw
\* values the codes are exactly 1..k, and two records have the same code
\* if and only if their raw values were equal
C4_CodesAreOneToK ==
  Done("encoder") =>
    \A item \in EncodedColumns :
      LET raw == {FileRow(r.id).f[item] : r \in Range(data.rows)}
      IN /\ {r.f[item] : r \in Range(data.rows)} = 1..Cardinality(raw)
         /\ \A r1, r2 \in Range(data.rows) :
              (r1.f[item] = r2.f[item])
                <=> (FileRow(r1.id).f[item] = FileRow(r2.id).f[item])

C4_Witness ==
  /\ pc = "train_test_split"
  /\ Len(data.rows) >= 4
  /\ \E item \in EncodedColumns :
       Cardinality({FileRow(r.id).f[item] : r \in Range(data.rows)}) >= 3
  /\ \E item \in EncodedColumns :
       Cardinality({FileRow(r.id).f[item] : r \in Range(data.rows)}) = 2

Complete(r) == \A c \in DOMAIN r.f : r.f[c] # NaN

\* t holds the complete rows of s, each once, in the order of s
IsCompleteRowsOf(s, t) ==
  /\ Range(t) = {r \in Range(s) : Complete(r)}
  /\ Len(t) = Cardinality({k \in 1..Len(s) : Complete(s[k])})
  /\ \A j, k \in 1..Len(t) :
       j < k => \E a, b \in 1..Len(s) : a < b /\ s[a] = t[j] /\ s[b] = t[k]

\* C5: the Cleaner removes exactly the records with a missing value in a
\* retained field and changes no surviving record; from then on no record
\* of the dataset, the TrainSet or the TestSet has a missing value
C5_CleanerDropsIncomplete ==
  /\ [][DropNaStep =>
          /\ data'.columns = data.columns
          /\ IsCompleteRowsOf(data.rows, data'.rows)]_vars
  /\ [](Done("dropna") =>
          /\ data.columns = RetainedColumns
          /\ \A r \in Range(data.rows) : Complete(r)
          /\ Done("train_test_split") =>
               /\ \A r \in Range(X_train.rows) \cup Range(X_test.rows) : Complete(r)
               /\ \A y \in Range(y_train.rows) \cup Range(y_test.rows) : y.v # NaN)

C5_Witness ==
  /\ Done("train_test_split")
  /\ Len(data.rows) >= 2
  /\ Len(data.rows) < SampleSize(Len(file.frame.rows))
  /\ \E k \in 1..Len(file.frame.rows) :
       /\ k \in Range(SampleLocs(Len(file.frame.rows)))
       /\ FileRow(k).f["AIR_TIME"] = NaN

ScoreOf(m, y, k) == m.scores[y.rows[k].id]

\* twice the number of (positive, negative) pairs with the positive scored
\* strictly higher, plus the number of tied pairs
PairCount(m, y) ==
  2 * Cardinality({pn \in Positives(y) \X Negatives(y) :
                     ScoreOf(m, y, pn[1]) > ScoreOf(m, y, pn[2])})
  + Cardinality({pn \in Positives(y) \X Negatives(y) :
                   ScoreOf(m, y, pn[1]) = ScoreOf(m, y, pn[2])})

\* value is the fraction of pairs ranked right, a tie counted as half
IsPairFraction(value, m, y) ==
  /\ value.den = 2 * Cardinality(Positives(y) \X Negatives(y))
  /\ value.den > 0
  /\ value.num = PairCount(m, y)

PerfectRanking(m, y) ==
  \A p \in Positives(y), n \in Negatives(y) : ScoreOf(m, y, p) > ScoreOf(m, y, n)

EvaluatedModel == IF Done("auc") THEN model ELSE model2

\* C7: the pair an Evaluator call returns is (train AUC, test AUC), each
\* the fraction of (positive, negative) pairs with the positive scored
\* higher, a tied pair counted as 0.5; it is 1 for a perfect ranking
C7_AucIsPairFraction ==
  pc = "returned" =>
    /\ Len(out) = 1
    /\ IsPairFraction(out[1][1], EvaluatedModel, y_train)
    /\ IsPairFraction(out[1][2], EvaluatedModel, y_test)
    /\ PerfectRanking(EvaluatedModel, y_train) => out[1][1].num = out[1][1].den
    /\ PerfectRanking(EvaluatedModel, y_test) => out[1][2].num = out[1][2].den

C7_Witness ==
  /\ pc = "returned"
  /\ Len(y_train.rows) = 3
  /\ PerfectRanking(EvaluatedModel, y_train)
  /\ out[1][1].num = out[1][1].den
  /\ ScoreOf(EvaluatedModel, y_test, 1) = ScoreOf(EvaluatedModel, y_test, 2)
  /\ 2 * out[1][2].num = out[1][2].den

\* C8: when y_train or y_test holds one class only, the Evaluator call
\* raises and returns no pair, whatever the other partition holds
C8_OneClassRaises ==
  (pc # "call" /\ (OneClass(y_train) \/ OneClass(y_test))) =>
    /\ pc = "aborted"
    /\ error # None /\ error.exc = "ValueError"
    /\ out = <<>>

C8_Witness ==
  /\ pc = "aborted"
  /\ error.stage = "auc2"
  /\ ~OneClass(y_train)
  /\ OneClass(y_test)
  /\ out = <<>>

\* the statements in the order of the notebook
CodeOrder ==
  <<"read_csv", "sample", "select", "dropna", "labeler", "encoder",
    "train_test_split", "grid_search_A", "fit_A", "auc_A", "grid_search_B",
    "lgb_Dataset", "train_B", "auc2_B", "train_B_cat", "auc2_B_cat">>

\* the order C10 states: the column subset before the sampling, the
\* Encoder before the Labeler
StatedOrder ==
  <<"read_csv", "select", "sample", "dropna", "encoder", "labeler",
    "train_test_split", "grid_search_A", "fit_A", "auc_A", "grid_search_B",
    "lgb_Dataset", "train_B", "auc2_B", "train_B_cat", "auc2_B_cat">>

IsPrefix(s, t) == Len(s) <= Len(t) /\ s = SubSeq(t, 1, Len(s))

\* the stages C9 names: Loader, Cleaner, Encoder, Splitter, Evaluator
NamedStages ==
  {"read_csv", "select", "dropna", "encoder", "train_test_split",
   "auc_A", "auc2_B", "auc2_B_cat"}

EvaluatorStages == {"auc_A", "auc2_B", "auc2_B_cat"}

\* what the statements that have run so far have produced, and nothing of
\* a statement that has not run
OnlyProductsOfRunStages ==
  /\ Done("read_csv") <=> data # None
  /\ Done("train_test_split") <=> X_train # None
  /\ Done("train_test_split") <=> X_test # None
  /\ Done("train_test_split") <=> y_train # None
  /\ Done("train_test_split") <=> y_test # None
  /\ Done("grid_search_A") <=> grid_search # None
  /\ Done("fit_A") <=> model # None
  /\ Done("lgb_Dataset") <=> d_train # None
  /\ Done("train_B") <=> model2 # None
  /\ Len(out) = Cardinality(Range(trace) \cap EvaluatorStages)

\* C9 as amended: when a stage fails the run ends there: the failing stage
\* is the one after the last completed stage, it is not run again, no
\* later stage runs, and nothing is produced after the failure; what the
\* earlier stages produced stays (nothing at all of TrainSet, TestSet,
\* model and AUC result when the failure is before the Splitter has run)
C9_FailureEndsRun ==
  /\ [](error # None =>
          /\ pc = "aborted"
          /\ Len(trace) < Len(CodeOrder)
          /\ IsPrefix(trace, CodeOrder)
          /\ error.stage = CodeOrder[Len(trace) + 1]
          /\ OnlyProductsOfRunStages
          /\ ~Done("train_test_split") =>
               /\ X_train = None /\ X_test = None
               /\ y_train = None /\ y_test = None
               /\ model = None /\ model2 = None
               /\ out = <<>>)
  /\ [][error # None => UNCHANGED vars]_vars

C9_Witness ==
  /\ pc = "aborted"
  /\ error.stage = "select"
  /\ error.exc = "KeyError"
  /\ data # None
  /\ Len(data.rows) >= 1
  /\ X_train = None

\* C9 as written: after a failure of a named stage there is no TrainSet,
\* TestSet, model or AUC result of that run
C9_NothingProduced ==
  (error # None /\ error.stage \in NamedStages) =>
    /\ pc = "aborted"
    /\ X_train = None /\ X_test = None
    /\ model = None /\ model2 = None
    /\ out = <<>>

\* C10 as amended: the statements run one after the other in the order
\* read_csv, sample, column selection, dropna, Labeler, Encoder, Splitter,
\* then search, fit and Evaluator of trainer A, then search, training and
\* Evaluator of trainer B without and with categorical features; none
\* runs twice, and a complete run has run them all
C10_StagesInCodeOrder ==
  /\ IsPrefix(trace, CodeOrder)
  /\ pc = "done" => trace = CodeOrder
  /\ (pc # "done" /\ pc # "aborted") => pc = CodeOrder[Len(trace) + 1]

C10_Witness ==
  /\ pc = "done"
  /\ Len(out) = 3
  /\ error = None

\* C10 as written: a complete run has run the stages in the stated order
C10_StagesInStatedOrder ==
  pc = "done" => trace = StatedOrder


\* the position of stage in the run so far (0 when it has not run)
PositionOf(stage) ==
  IF Done(stage) THEN CHOOSE k \in 1..Len(trace) : trace[k] = stage ELSE 0

\* the raw values of a field over the rows of the cleaned dataset: the
\* vocabulary the Encoder saw
Vocabulary(item) == {FileRow(r.id).f[item] : r \in Range(data.rows)}

\* the code the Encoder's map gives a raw value: its rank in the vocabulary
MapCode(item, raw) == Cardinality({u \in Vocabulary(item) : u <= raw})

\* C11: the Encoder has run on the whole cleaned dataset before the
\* Splitter, so in both partitions a record's code is the one the single
\* map of its field gives its raw value: equal raw values carry equal
\* codes across TrainSet and TestSet, and every code of the TestSet is a
\* code of the map
C11_OneCodeMapForBothPartitions ==
  Done("train_test_split") =>
    /\ PositionOf("encoder") > 0
    /\ PositionOf("encoder") < PositionOf("train_test_split")
    /\ \A item \in {"AIRLINE", "FLIGHT_NUMBER", "DESTINATION_AIRPORT",
                    "ORIGIN_AIRPORT"} :
         /\ \A r \in Range(X_train.rows) \cup Range(X_test.rows) :
              r.f[item] = MapCode(item, FileRow(r.id).f[item])
         /\ \A r1 \in Range(X_train.rows), r2 \in Range(X_test.rows) :
              (FileRow(r1.id).f[item] = FileRow(r2.id).f[item])
                => r1.f[item] = r2.f[item]
         /\ \A r \in Range(X_test.rows) :
              r.f[item] \in {MapCode(item, u) : u \in Vocabulary(item)}

\* a raw value present in both partitions, and one the TestSet lacks
C11_Witness ==
  /\ Done("train_test_split")
  /\ \E r1 \in Range(X_train.rows), r2 \in Range(X_test.rows) :
       /\ FileRow(r1.id).f["AIRLINE"] = FileRow(r2.id).f["AIRLINE"]
       /\ r1.f["AIRLINE"] = r2.f["AIRLINE"]
       /\ r1.f["AIRLINE"] > 1
  /\ \E u \in Vocabulary("AIRLINE") :
       \A r \in Range(X_test.rows) : FileRow(r.id).f["AIRLINE"] # u


\* the evaluator a finished call was a call of, the model it was given and
\* the operation that evaluator scores with
CalledEvaluator ==
  IF Done("auc") \/ (error # None /\ error.stage = "auc") THEN "auc" ELSE "auc2"

CalledModel == IF CalledEvaluator = "auc" THEN model ELSE model2

NeededOperation == IF CalledEvaluator = "auc" THEN "predict_proba" ELSE "predict"

TwoClasses == ~OneClass(y_train) /\ ~OneClass(y_test)

\* C12: an Evaluator call computes the (train AUC, test AUC) pair for a
\* trained model that has the operation the called evaluator scores with
\* (predict_proba for auc, predict for auc2), whatever other operation the
\* model has; for a model without that operation the call raises
\* AttributeError and returns no pair
C12_EvaluatorNeedsItsOperation ==
  pc # "call" =>
    /\ (NeededOperation \notin CalledModel.methods) =>
         /\ pc = "aborted"
         /\ error.exc = "AttributeError"
         /\ out = <<>>
    /\ (NeededOperation \in CalledModel.methods /\ TwoClasses) =>
         /\ pc = "returned"
         /\ Len(out) = 1
         /\ IsPairFraction(out[1][1], CalledModel, y_train)
         /\ IsPairFraction(out[1][2], CalledModel, y_test)

\* auc given a model with predict alone, and auc2 given one with
\* predict_proba alone, on two-class labels
C12_Witness ==
  /\ pc = "aborted"
  /\ TwoClasses
  /\ error.exc = "AttributeError"
  /\ \/ error.stage = "auc" /\ model.methods = {"predict"}
     \/ error.stage = "auc2" /\ model2.methods = {"predict_proba"}

\* C12 as stated: an Evaluator call on two-class labels returns the pair
\* for every model that has at least one of the two operations
C12_AnyOperationSuffices ==
  (pc # "call" /\ CalledModel.methods # {} /\ TwoClasses) =>
    /\ pc = "returned"
    /\ Len(out) = 1


\* the codes of every encoded field of frame are exactly 1..k, k the number
\* of distinct codes: no gap
GapFree(frame) ==
  \A item \in {"AIRLINE", "FLIGHT_NUMBER", "DESTINATION_AIRPORT",
               "ORIGIN_AIRPORT"} :
    Categories(frame, item) = 1..Cardinality(Categories(frame, item))

\* C13: a further application of the Encoder loop leaves every code as it
\* is when the codes of each categorical field are exactly 1..k (as the
\* loop itself leaves them), and changes some code when rows were removed
\* so that a field's codes have a gap
C13_ReencodeKeepsGapFreeCodes ==
  [][(trace' = Append(trace, "encoder")) =>
       /\ GapFree(data) <=> data' = data
       /\ GapFree(data')
       /\ Ids(data'.rows) = Ids(data.rows)]_vars

\* encoded, rows holding a code removed, encoded again: a row now carries
\* a code other than the one the first application gave it
C13_Witness ==
  /\ trace = <<"encoder", "remove", "encoder">>
  /\ GapFree(data)
  /\ \E k \in 1..Len(data.rows), j \in 1..Len(OnceEncoded.rows) :
       /\ data.rows[k].id = OnceEncoded.rows[j].id
       /\ data.rows[k].f["AIRLINE"] # OnceEncoded.rows[j].f["AIRLINE"]


\* what train_test_split returns for the prepared dataset
SplitOfData ==
  LET n == Len(data.rows)
  IN [X_train |-> Frame(Features(data).columns,
                        Take(Features(data).rows, IndTrain(n))),
      X_test  |-> Frame(Features(data).columns,
                        Take(Features(data).rows, IndTest(n))),
      y_train |-> Series(Take(Target(data).rows, IndTrain(n))),
      y_test  |-> Series(Take(Target(data).rows, IndTest(n)))]

\* C14: X_train, y_train, X_test and y_test hold nothing before the
\* Splitter and, at every later step, exactly what the Splitter assigned;
\* each grid search, the lgb.Dataset and each of the three fits has
\* received that X_train with that y_train
C14_TrainersFedIdentically ==
  /\ ~Done("train_test_split") =>
       X_train = None /\ X_test = None /\ y_train = None /\ y_test = None
  /\ Done("train_test_split") =>
       LET split == SplitOfData
       IN /\ X_train = split.X_train /\ X_test = split.X_test
          /\ y_train = split.y_train /\ y_test = split.y_test
  /\ grid_search # None => grid_search.X = X_train /\ grid_search.y = y_train
  /\ d_train # None => d_train.X = X_train /\ d_train.label = y_train
  /\ model # None => model.X = X_train /\ model.y = y_train
  /\ model2 # None => model2.X = X_train /\ model2.y = y_train

\* a run to its end: both searches, the three fits and the three
\* Evaluator calls done
C14_Witness ==
  /\ pc = "done"
  /\ Len(out) = 3
  /\ grid_search.estimator = "LGBMClassifier"
  /\ model.X = X_train /\ model.y = y_train
  /\ model2.categorical = cate_features_name
  /\ model2.X = X_train /\ model2.y = y_train
  /\ Len(X_train.rows) >= 2 /\ Len(X_test.rows) >= 2


\* C15: for each trainer the grid search over its declared grid of 27
\* cells is done before that trainer's final fit, and the configuration
\* of the final fit is one of the cells of that grid
C15_FinalFitIsGridCell ==
  /\ Cardinality(GridA) = 27 /\ Cardinality(GridB) = 27
  /\ model # None =>
       /\ PositionOf("grid_search_A") > 0
       /\ Done("fit_A") => PositionOf("grid_search_A") < PositionOf("fit_A")
       /\ model.params \in GridA
  /\ model2 # None =>
       /\ PositionOf("grid_search_B") > 0
       /\ Done("train_B") => PositionOf("grid_search_B") < PositionOf("train_B")
       /\ model2.params \in GridB

\* trainer B fitted after its grid search, with a configuration whose
\* n_estimators no cell of its grid has
C15_Witness ==
  /\ Done("grid_search_B") /\ Done("train_B")
  /\ model.params \in GridA
  /\ model2.params.n_estimators = 300
  /\ \A cell \in GridB : cell.n_estimators = 200


\* frame b has the columns and the records of frame a, in the order of a,
\* and differs from a in the fields named at most
OnlyChanged(a, b, fields) ==
  /\ b.columns = a.columns
  /\ Len(b.rows) = Len(a.rows)
  /\ \A k \in 1..Len(a.rows) :
       /\ b.rows[k].id = a.rows[k].id
       /\ \A c \in a.columns \ fields : b.rows[k].f[c] = a.rows[k].f[c]
       /\ \A c \in {"MONTH", "DAY", "DAY_OF_WEEK", "AIR_TIME",
                    "DEPARTURE_TIME", "DISTANCE"} :
            b.rows[k].f[c] = a.rows[k].f[c]

\* C16: the Labeler step changes the ARRIVAL_DELAY field alone and the
\* Encoder step the four encoded fields alone; both keep the records,
\* their order and the six other fields, and on the dataset the Labeler
\* receives, Labeler then Encoder gives what Encoder then Labeler gives
C16_LabelerAndEncoderCommute ==
  [][/\ (pc = "labeler" /\ pc' = "encoder") =>
          /\ OnlyChanged(data, data', {"ARRIVAL_DELAY"})
          /\ Encoder(Labeler(data)) = Labeler(Encoder(data))
     /\ (pc = "encoder" /\ pc' = "train_test_split") =>
          /\ OnlyChanged(data, data',
                         {"AIRLINE", "FLIGHT_NUMBER", "DESTINATION_AIRPORT",
                          "ORIGIN_AIRPORT"})]_vars

\* after both steps: a label and a code that differ from the file's values,
\* in a dataset of several records
C16_Witness ==
  /\ pc = "train_test_split"
  /\ Len(data.rows) >= 4
  /\ \E r \in Range(data.rows) :
       /\ r.f["ARRIVAL_DELAY"] = 1 /\ FileRow(r.id).f["ARRIVAL_DELAY"] > 10
       /\ r.f["AIRLINE"] = 2 /\ FileRow(r.id).f["AIRLINE"] >= 100
       /\ r.f["DISTANCE"] = FileRow(r.id).f["DISTANCE"]


\* X and y have the same length and, position by position, the same row
SameRows(X, y) ==
  /\ Len(X.rows) = Len(y.rows)
  /\ \A k \in 1..Len(y.rows) : X.rows[k].id = y.rows[k].id

\* C17: at every Evaluator call of the run the labels are the run's
\* y_train and y_test, and the matrices passed are the X_train and X_test
\* of the same split: each score vector has the length of its label vector
\* and its k-th score is the model's score of the row of the k-th label;
\* on two-class labels the call appends the pair computed from them
C17_ScoresAlignedWithLabels ==
  [][(pc \in {"auc_A", "auc2_B", "auc2_B_cat"}) =>
       LET m == IF pc = "auc_A" THEN model ELSE model2
       IN /\ SameRows(X_train, y_train) /\ SameRows(X_test, y_test)
          /\ Aligned(X_train, y_train) /\ Aligned(X_test, y_test)
          /\ \A k \in 1..Len(y_train.rows) :
               Scores(m, X_train)[k] = ScoreOf(m, y_train, k)
          /\ \A k \in 1..Len(y_test.rows) :
               Scores(m, X_test)[k] = ScoreOf(m, y_test, k)
          /\ TwoClasses =>
               /\ pc' # "aborted"
               /\ out' = Append(out,
                                <<roc_auc_score(y_train, Scores(m, X_train)),
                                  roc_auc_score(y_test, Scores(m, X_test))>>)
               /\ IsPairFraction(out'[Len(out')][1], m, y_train)
               /\ IsPairFraction(out'[Len(out')][2], m, y_test)]_vars

\* the three Evaluator calls of a run have returned, on partitions of
\* different lengths
C17_Witness ==
  /\ Done("auc_A") /\ Done("auc2_B") /\ Done("auc2_B_cat")
  /\ Len(out) = 3
  /\ Len(y_train.rows) > Len(y_test.rows)
  /\ Len(X_train.rows) = Len(y_train.rows)
  /\ IsPairFraction(out[1][1], model, y_train)
  /\ IsPairFraction(out[3][2], model2, y_test)

====
